---- MODULE Spec2Model ----
(***************************************************************************)
(* GoogleFindMy-HA: the FCM push receiver (FcmReceiverHA), the location     *)
(* request (get_location_data_for_device) and the coordinator's FCM        *)
(* initialisation, as one asyncio event loop plus its executor threads.    *)
(* An action is the code one task runs between two suspension points; a    *)
(* stretch of code that touches only the task's own locals is joined to    *)
(* the step that follows it.                                               *)
(***************************************************************************)
EXTENDS Integers, Sequences, FiniteSets, TLC

\* ---- bounds of the model
NumDevices == 2
NumCalls == 2
NumCoords == 2
MaxPushes == 2
MaxRecs == 2
TickStep == 60
MaxStops == 2

\* ---- program constants
Timeout == 60
MaxRetries == 3

Devices == 1..NumDevices
Calls == 1..NumCalls
Coords == 1..NumCoords
\* canonic_id = None: the push carries no extractable identifier
NoId == 0
\* the origin of a push nobody asked for
Unsolicited == 0
\* credentials = None (no delivery token)
NoCreds == 0
\* self.pc = None
NoClient == 0
\* [] and {} : the falsy "no data" values the request returns
NoData == << >>
\* credentials a previous run of the process persisted
PersistedCreds == NumCalls + NumCoords + MaxStops + 1

VARIABLES
  credentials,    \* FcmReceiverHA.credentials (NoCreds, or the credentials' identity)
  cache,          \* token cache entry 'fcm_credentials'
  pc,             \* FcmReceiverHA.pc: index into clients, or NoClient
  clients,        \* every FcmPushClient constructed so far
  callbacks,      \* FcmReceiverHA.location_update_callbacks: device -> call owning the handler
  coordinators,   \* FcmReceiverHA.coordinators
  fcmInit,        \* coordinator._fcm_initialized
  coordData,      \* coordinator._device_location_data
  stops,          \* calls of FcmReceiverHA.async_stop made so far
  at,             \* position of each get_location_data_for_device call
  dev,            \* canonic_device_id of each call
  retries,        \* retries of the _register_for_fcm loop the call runs
  target,         \* the client whose checkin_or_register the call awaits, or NoClient
  event,          \* location_event of each call
  received,       \* received_location_data of each call
  result,         \* return value of each call
  exit,           \* the return statement each call left by
  waited,         \* time each call has spent in wait_for
  arrived,        \* identifier of every push received so far, in the order of arrival
  handlerTasks,   \* scheduled _run_callback_async tasks
  invoked,        \* handler executions that have happened: << call, push number >>
  bgTasks,        \* scheduled _process_background_update tasks
  saveTasks,      \* scheduled _async_save_credentials tasks
  saveFailed,     \* the last _async_save_credentials to run logged a failure
  sentLog,        \* calls in the order their request reached the cloud
  outOfOrder      \* an answer was delivered while the answer to an earlier request was under way

vars == << credentials, cache, pc, clients, callbacks, coordinators, fcmInit,
           coordData, stops, at, dev, retries, target, event, received, result, exit, waited,
           arrived, handlerTasks, invoked, bgTasks, saveTasks, saveFailed, sentLog,
           outOfOrder >>

chanVars == << credentials, cache, pc, clients >>
coordVars == << coordinators, fcmInit, coordData, stops >>
callVars == << at, dev, retries, target, event, received, result, exit, waited >>
pushVars == << arrived, outOfOrder >>
taskVars == << handlerTasks, invoked, bgTasks, saveTasks, saveFailed >>

\* ---- helpers over the state

Range(f) == {f[i] : i \in DOMAIN f}

\* FcmPushClient(...) as async_initialize constructs it: holding the loaded
\* credentials, no receive loop started, stopping_lock None until start()
NewClient(creds) == [creds |-> creds, loops |-> 0, lock |-> FALSE]

\* mutant: an entry already present is kept (setdefault)
RegistryInsertKeepFirst(cbs, d, c) ==
  [x \in (DOMAIN cbs) \cup {d} |-> IF x \in DOMAIN cbs THEN cbs[x] ELSE c]

\* mutant: the waiter is not inserted
RegistryInsertNothing(cbs, d, c) == cbs

\* self.location_update_callbacks[device_id] = callback
RegistryInsert(cbs, d, c) ==
  [x \in (DOMAIN cbs) \cup {d} |-> IF x = d THEN c ELSE cbs[x]]

\* mutant: unregistering leaves the entry in place
RegistryRemoveNothing(cbs, d) == cbs

\* if device_id in self.location_update_callbacks: del ...[device_id]
RegistryRemove(cbs, d) ==
  [x \in (DOMAIN cbs) \ {d} |-> cbs[x]]

\* mutant: the token test is always passed
HasTokenAlways(creds) == TRUE

\* credentials and 'fcm' in credentials and 'registration' in credentials['fcm']
HasToken(creds) == creds # NoCreds

\* not self.pc or not self.pc.is_started()
NotStarted(p, cls) == p = NoClient \/ cls[p].loops = 0

\* decrypt_location_response_locations(parse_device_update_protobuf(hex))
decrypt(p) == [i \in 1..p.nrec |-> [dev |-> p.id, push |-> p.n, idx |-> i]]

\* coordinator.tracked_devices, set at construction: the first coordinator tracks
\* the first device only, every other coordinator tracks every device
tracked == [k \in Coords |-> IF k = 1 THEN {1} ELSE Devices]

\* ---- Init: the process after FcmReceiverHA.__init__ and the coordinators' __init__

Init ==
  /\ credentials = NoCreds
  /\ cache \in {NoCreds, PersistedCreds}
  /\ pc = NoClient
  /\ clients = << >>
  /\ callbacks = << >>
  /\ coordinators = << >>
  /\ fcmInit = [k \in Coords |-> FALSE]
  /\ coordData = [k \in Coords |-> [d \in Devices |-> NoData]]
  /\ stops = 0
  /\ at = [c \in Calls |-> "idle"]
  /\ dev = [c \in Calls |-> NoId]
  /\ retries = [c \in Calls |-> 0]
  /\ target = [c \in Calls |-> NoClient]
  /\ event = [c \in Calls |-> FALSE]
  /\ received = [c \in Calls |-> NoData]
  /\ result = [c \in Calls |-> NoData]
  /\ exit = [c \in Calls |-> "none"]
  /\ waited = [c \in Calls |-> 0]
  /\ arrived = << >>
  /\ handlerTasks = {}
  /\ invoked = {}
  /\ bgTasks = {}
  /\ saveTasks = 0
  /\ saveFailed = FALSE
  /\ sentLog = << >>
  /\ outOfOrder = FALSE

\* ---- FcmReceiverHA.async_initialize

InitOutcomes == {"ok", "load_fail", "construct_fail"}

\* the credentials field once async_initialize is over
LoadedCredentials(outcome) == IF outcome = "load_fail" THEN credentials ELSE cache

\* self.pc = FcmPushClient(...): the clients once async_initialize is over
ConstructedClients(outcome) ==
  IF outcome = "ok" THEN Append(clients, NewClient(cache)) ELSE clients

\* self.pc once async_initialize is over
ConstructedPc(outcome) == IF outcome = "ok" THEN Len(clients) + 1 ELSE pc

\* ---- FcmReceiverHA._start_listening

\* asyncio.create_task(self._listen_for_messages()): if self.pc: await self.pc.start()
\* (the task runs next on the loop, and start() is taken to connect at once)
StartClient(cls, p) ==
  IF p = NoClient THEN cls ELSE [cls EXCEPT ![p].loops = @ + 1, ![p].lock = TRUE]

\* checkin_or_register answers with a token: a client without credentials has
\* registered and holds new ones
CheckedIn(cls, p) ==
  IF cls[p].creds = NoCreds THEN [cls EXCEPT ![p].creds = p] ELSE cls

\* ---- get_location_data_for_device

\* a return statement of the call; the call's locals are gone with it
Return(c, how, value) ==
  /\ at' = [at EXCEPT ![c] = "done"]
  /\ exit' = [exit EXCEPT ![c] = how]
  /\ result' = [result EXCEPT ![c] = value]
  /\ retries' = [retries EXCEPT ![c] = 0]
  /\ target' = [target EXCEPT ![c] = NoClient]
  /\ waited' = [waited EXCEPT ![c] = 0]
  /\ event' = [event EXCEPT ![c] = FALSE]
  /\ received' = [received EXCEPT ![c] = NoData]

\* the call goes on to position "to"
Goto(c, to) ==
  /\ at' = [at EXCEPT ![c] = to]
  /\ retries' = [retries EXCEPT ![c] = 0]
  /\ target' = [target EXCEPT ![c] = NoClient]
  /\ UNCHANGED << exit, result, waited, event, received >>

\* a pass of the _register_for_fcm loop begins: await self.pc.checkin_or_register()
\* is called on the client self.pc names now
Attempt(c, p) ==
  /\ at' = [at EXCEPT ![c] = "checkin"]
  /\ target' = [target EXCEPT ![c] = p]
  /\ UNCHANGED << retries, exit, result, waited, event, received >>

\* mutant: the caller goes on to the request whatever the registration returned
TokenTestSkipped(c, creds) == Goto(c, "send")

\* the token test of async_register_for_location_updates and the caller's
\* "if not fcm_token: return []"
TokenTest(c, creds) ==
  IF HasToken(creds) THEN Goto(c, "send") ELSE Return(c, "no_token", NoData)

\* finally: await fcm_receiver.async_unregister_for_location_updates(canonic_device_id)
Cleanup(cbs, c) == RegistryRemove(cbs, dev[c])

\* mutant: del without the membership test and without the except clause
UnregisterRaisesIfAbsent(cbs, d) == d \notin DOMAIN cbs

\* an exception leaves async_unregister_for_location_updates: never, the entry
\* is deleted only "if device_id in ...", inside try ... except Exception
UnregisterRaises(cbs, d) == FALSE

\* the call leaves wait_for through the finally and returns; an exception out
\* of the finally would be caught by the outer except, which returns {}
Finish(c, how, value) ==
  IF UnregisterRaises(callbacks, dev[c])
    THEN /\ UNCHANGED callbacks
         /\ Return(c, "send_fail", NoData)
    ELSE /\ callbacks' = Cleanup(callbacks, c)
         /\ Return(c, how, value)

\* the call is made (calls are numbered in the order they are made) and its
\* await async_initialize() is over; on success the waiter is registered and
\* _start_listening runs up to its first checkin_or_register
Call(c, d, outcome) ==
  /\ at[c] = "idle"
  /\ \A o \in Calls : o < c => at[o] # "idle"
  /\ dev' = [dev EXCEPT ![c] = d]
  /\ credentials' = LoadedCredentials(outcome)
  /\ clients' = ConstructedClients(outcome)
  /\ pc' = ConstructedPc(outcome)
  /\ IF outcome # "ok"
       THEN /\ Return(c, "init_fail", NoData)
            /\ UNCHANGED callbacks
       ELSE /\ callbacks' = RegistryInsert(callbacks, d, c)
            /\ IF NotStarted(pc', clients')
                 THEN Attempt(c, pc')
                 ELSE TokenTest(c, credentials')
  /\ UNCHANGED << cache, coordVars, pushVars, taskVars, sentLog >>

CheckinOutcomes == {"token", "none", "raise"}

\* checkin_or_register of one pass of the _register_for_fcm loop is over. With a
\* token the loop ends: create_task(_listen_for_messages()), which starts the
\* client self.pc names by then, and the token test. Without one, or when it
\* raised: retries += 1 and await asyncio.sleep(5)
Checkin(c, outcome) ==
  /\ at[c] = "checkin"
  /\ target[c] = NoClient => outcome = "raise"
  /\ IF outcome = "token"
       THEN LET mint == clients[target[c]].creds = NoCreds IN
            /\ clients' = StartClient(CheckedIn(clients, target[c]), pc)
            /\ credentials' = IF mint THEN target[c] ELSE credentials
            /\ saveTasks' = IF mint THEN saveTasks + 1 ELSE saveTasks
            /\ TokenTest(c, credentials')
       ELSE /\ at' = [at EXCEPT ![c] = "sleep"]
            /\ retries' = [retries EXCEPT ![c] = @ + 1]
            /\ target' = [target EXCEPT ![c] = NoClient]
            /\ UNCHANGED << clients, credentials, saveTasks >>
            /\ UNCHANGED << exit, result, waited, event, received >>
  /\ UNCHANGED << cache, pc, callbacks, dev >>
  /\ UNCHANGED << coordVars, pushVars, handlerTasks, invoked, bgTasks, saveFailed, sentLog >>

\* mutant: the loop test lets one attempt too many through
LoopGoesOnOnceMore(r) == r <= MaxRetries

\* while fcm_token is None and retries < 3 (no token was obtained in this pass)
LoopGoesOn(r) == r < MaxRetries

\* asyncio.sleep(5) is over and the loop test "fcm_token is None and retries < 3"
\* is made: another pass, or the loop ends without a token and _start_listening
\* goes on to create_task(_listen_for_messages()) all the same
Sleep(c) ==
  /\ at[c] = "sleep"
  /\ IF LoopGoesOn(retries[c])
       THEN /\ Attempt(c, pc)
            /\ UNCHANGED clients
       ELSE /\ clients' = StartClient(clients, pc)
            /\ TokenTest(c, credentials)
  /\ UNCHANGED << credentials, cache, pc, callbacks, dev >>
  /\ UNCHANGED << coordVars, pushVars, taskVars, sentLog >>

\* await async_nova_request(...) is over, then wait_for(location_event.wait(), 60)
NovaRequest(c, ok) ==
  /\ at[c] = "send"
  /\ IF ~ok
       THEN /\ Return(c, "send_fail", NoData)
            /\ UNCHANGED << callbacks, sentLog >>
       ELSE /\ sentLog' = Append(sentLog, c)
            /\ IF event[c]
                 THEN Finish(c, "ok", received[c])
                 ELSE /\ Goto(c, "wait")
                      /\ UNCHANGED callbacks
  /\ UNCHANGED << dev, chanVars, coordVars, pushVars, taskVars >>

\* location_event is set: wait_for returns, finally unregisters, return the record
WaitDone(c) ==
  /\ at[c] = "wait"
  /\ event[c]
  /\ Finish(c, "ok", received[c])
  /\ UNCHANGED << dev, chanVars, coordVars, pushVars, taskVars, sentLog >>

\* mutant: the timeout returns whatever the handler has stored by then
TimeoutFireKeepsData(c) ==
  /\ at[c] = "wait"
  /\ waited[c] >= Timeout
  /\ Finish(c, "timeout", received[c])
  /\ UNCHANGED << dev, chanVars, coordVars, pushVars, taskVars, sentLog >>

\* asyncio.TimeoutError: return {} through the finally
TimeoutFire(c) ==
  /\ at[c] = "wait"
  /\ waited[c] >= Timeout
  /\ Finish(c, "timeout", NoData)
  /\ UNCHANGED << dev, chanVars, coordVars, pushVars, taskVars, sentLog >>

\* time passes for every call inside wait_for; a due timeout fires before more passes
Tick ==
  /\ \E c \in Calls : at[c] = "wait"
  /\ \A c \in Calls : at[c] = "wait" => waited[c] < Timeout
  /\ waited' = [c \in Calls |-> IF at[c] = "wait" THEN waited[c] + TickStep ELSE waited[c]]
  /\ UNCHANGED << at, dev, retries, target, event, received, result, exit >>
  /\ UNCHANGED << chanVars, callbacks, coordVars, pushVars, taskVars, sentLog >>

\* ---- the cloud and the push service

\* a registered client's receive loop runs: the push service can reach the process
Listening == \E i \in 1..Len(clients) : clients[i].loops > 0 /\ clients[i].creds # NoCreds

\* the number of location records a push decrypts to: none, or MaxRecs
Payloads == {0, MaxRecs}

\* the request a push for device d answers: the latest one sent for d, if any
LatestRequest(d) ==
  LET is == {i \in 1..Len(sentLog) : dev[sentLog[i]] = d} IN
  IF is = {} THEN Unsolicited ELSE sentLog[CHOOSE i \in is : \A j \in is : j <= i]

\* request a reached the cloud before request b
Before(a, b) ==
  \E i, j \in 1..Len(sentLog) : i < j /\ sentLog[i] = a /\ sentLog[j] = b

\* an answer arrives while an earlier request, of another call, still waits for its own
Overtakes(p) ==
  /\ p.origin # Unsolicited
  /\ \E c \in Calls : at[c] = "wait" /\ ~event[c] /\ Before(c, p.origin)

\* what a receive loop can hand over: a location response, a message without the
\* FCM_PAYLOAD field, a payload that is no base64, a payload that is no
\* DeviceUpdate protobuf, a DeviceUpdate without a canonic id
Shapes == {"location", "no_payload", "bad_base64", "bad_protobuf", "no_id"}

\* the push number n that arrives: of the given shape, for device d (NoId unless
\* it is a location response), with load records
Push(n, d, load, shape) ==
  [n |-> n, id |-> d, origin |-> LatestRequest(d), nrec |-> load, shape |-> shape]

\* ---- FcmReceiverHA._on_notification

\* if 'data' in obj and 'com.google.android.apps.adm.FCM_PAYLOAD' in obj['data']
HasPayload(p) == p.shape # "no_payload"

\* base64.b64decode(base64_string) does not raise
Decodes(p) == p.shape # "bad_base64"

\* _extract_canonic_id_from_response: the first canonic id, or None when the
\* protobuf does not parse (the exception is caught inside) or holds no id
ExtractCanonicId(p) == IF p.shape = "location" THEN p.id ELSE NoId

\* the message reaches the routing of _on_notification with an identifier
Routable(p) == HasPayload(p) /\ Decodes(p) /\ ExtractCanonicId(p) # NoId

\* mutant: a b64decode error leaves _on_notification
EscapesUndecodable(p) == ~Decodes(p)

\* an exception leaves _on_notification: never, its whole body is inside
\* try ... except Exception, and the inner handlers return
Escapes(p) == FALSE

\* the receive loops once _on_notification is over: an exception that left it
\* would end the loop that made the call
ReceiveLoops(cls, p) ==
  IF Escapes(p) THEN [i \in DOMAIN cls |-> [cls[i] EXCEPT !.loops = 0]] ELSE cls

\* mutant: the registry is not consulted
HasWaiterNever(cbs, p) == FALSE

\* if canonic_id and canonic_id in self.location_update_callbacks
HasWaiter(cbs, p) == Routable(p) /\ ExtractCanonicId(p) \in DOMAIN cbs

\* mutant: the handler of some registered device is taken, whatever the identifier
WaiterOfAny(cbs, p) == cbs[CHOOSE d \in DOMAIN cbs : \A e \in DOMAIN cbs : d <= e]

\* callback = self.location_update_callbacks[canonic_id]
Waiter(cbs, p) == cbs[p.id]

\* mutant: the matched handler is not scheduled
ScheduleCallbackNever(tasks, cb, p) == tasks

\* asyncio.create_task(self._run_callback_async(callback, canonic_id, hex_string))
ScheduleCallback(tasks, cb, p) == tasks \cup {[cb |-> cb, push |-> p]}

\* the registry once a push was matched to the waiter of p.id: the entry stays
RegistryAfterDispatch(cbs, p) == cbs

\* mutant: the first coordinator is taken without the membership test
FirstTrackerUntested(coords, d) ==
  IF coords = << >> THEN {} ELSE {coords[1]}

\* mutant: the loop over the coordinators has no break
EveryTracker(coords, d) == {k \in Range(coords) : d \in tracked[k]}

\* for coordinator in self.coordinators:
\*   if canonic_id in coordinator.tracked_devices: ...; break
FirstTracker(coords, d) ==
  LET hits == {i \in 1..Len(coords) : d \in tracked[coords[i]]} IN
  IF hits = {} THEN {} ELSE {coords[CHOOSE i \in hits : \A j \in hits : i <= j]}

\* asyncio.create_task(self._process_background_update(coordinator, canonic_id, hex_string))
ScheduleBackground(tasks, ks, p) == tasks \cup {[coord |-> k, push |-> p] : k \in ks}

\* the cloud sends a push and a receive loop hands it to _on_notification
OnNotification(p) ==
  /\ Len(arrived) < MaxPushes
  /\ Listening
  /\ (p.shape = "location") <=> (p.id # NoId)
  /\ p.id = NoId => p.nrec = 0
  /\ arrived' = Append(arrived, ExtractCanonicId(p))
  /\ outOfOrder' = (outOfOrder \/ Overtakes(p))
  /\ IF HasWaiter(callbacks, p)
       THEN /\ handlerTasks' = ScheduleCallback(handlerTasks, Waiter(callbacks, p), p)
            /\ callbacks' = RegistryAfterDispatch(callbacks, p)
            /\ UNCHANGED bgTasks
       ELSE IF Routable(p)
         THEN /\ bgTasks' = ScheduleBackground(bgTasks, FirstTracker(coordinators, p.id), p)
              /\ UNCHANGED << handlerTasks, callbacks >>
         ELSE UNCHANGED << handlerTasks, callbacks, bgTasks >>
  /\ clients' = ReceiveLoops(clients, p)
  /\ UNCHANGED << invoked, saveTasks, saveFailed >>
  /\ UNCHANGED << credentials, cache, pc, coordVars, callVars, sentLog >>

\* ---- location_callback, run by _run_callback_async in the executor

\* mutant: the handler takes a response for any device
AcceptsAny(c, p) == TRUE

\* the identifier test of the handler: response_canonic_id != canonic_device_id => ignore
Accepts(c, p) == p.id = dev[c]

\* mutant: the last decrypted record is stored
StoredLast(c, p, old) ==
  IF Accepts(c, p) /\ Len(decrypt(p)) > 0 THEN << decrypt(p)[Len(decrypt(p))] >> ELSE old

\* received_location_data once the handler of call c has run on push p
Stored(c, p, old) ==
  IF Accepts(c, p) /\ Len(decrypt(p)) > 0 THEN << decrypt(p)[1] >> ELSE old

\* location_event once the handler of call c has run on push p
Signalled(c, p, old) == IF Accepts(c, p) THEN TRUE ELSE old

\* received_location_data once the handler is over: when decryption raised, the
\* except clause stores nothing
HandlerStores(c, p, fails, old) == IF fails THEN old ELSE Stored(c, p, old)

\* the executor runs the handler, whose decryption may raise (the payload parsed
\* in _extract_canonic_id_from_response, so it parses here too); once its call
\* has returned nothing reads the handler's closure any more
RunCallback(t, fails) ==
  /\ t \in handlerTasks
  /\ handlerTasks' = handlerTasks \ {t}
  /\ invoked' = invoked \cup {<< t.cb, t.push.n >>}
  /\ IF at[t.cb] = "done"
       THEN UNCHANGED << received, event >>
       ELSE /\ received' = [received EXCEPT ![t.cb] = HandlerStores(t.cb, t.push, fails, @)]
            /\ event' = [event EXCEPT ![t.cb] = Signalled(t.cb, t.push, @)]
  /\ UNCHANGED << at, dev, retries, target, result, exit, waited >>
  /\ UNCHANGED << bgTasks, saveTasks, saveFailed >>
  /\ UNCHANGED << chanVars, callbacks, coordVars, pushVars, sentLog >>

\* ---- FcmReceiverHA._process_background_update

\* _decode_background_location: the first record, or {}
BackgroundLocation(p) ==
  IF Len(decrypt(p)) > 0 THEN << decrypt(p)[1] >> ELSE NoData

ProcessBackground(t) ==
  /\ t \in bgTasks
  /\ bgTasks' = bgTasks \ {t}
  /\ coordData' = IF BackgroundLocation(t.push) # NoData
                    THEN [coordData EXCEPT ![t.coord][t.push.id] = BackgroundLocation(t.push)]
                    ELSE coordData
  /\ UNCHANGED << coordinators, fcmInit, stops >>
  /\ UNCHANGED << handlerTasks, invoked, saveTasks, saveFailed >>
  /\ UNCHANGED << chanVars, callbacks, callVars, pushVars, sentLog >>

\* ---- FcmReceiverHA._async_save_credentials

\* mutant: the task writes nothing
PersistedValueKept(ok) == cache

\* the cache entry once the task is over:
\* async_set_cached_value('fcm_credentials', self.credentials) has written what
\* the field holds by then, or has raised
PersistedValue(ok) == IF ok THEN credentials ELSE cache

\* the task runs; a failure is logged and goes no further
SaveCredentials(ok) ==
  /\ saveTasks > 0
  /\ saveTasks' = saveTasks - 1
  /\ saveFailed' = ~ok
  /\ cache' = PersistedValue(ok)
  /\ UNCHANGED << credentials, pc, clients >>
  /\ UNCHANGED << handlerTasks, invoked, bgTasks >>
  /\ UNCHANGED << callbacks, coordVars, callVars, pushVars, sentLog >>

\* ---- GoogleFindMyCoordinator._async_initialize_fcm

\* register_coordinator: if coordinator not in self.coordinators: append
RegisterCoordinator(coords, k) ==
  IF k \in Range(coords) THEN coords ELSE Append(coords, k)

\* an update cycle finds _fcm_initialized false; its await async_initialize() is
\* over (the cycle initializes FCM before it polls, so between location requests)
CoordInitialize(k, outcome) ==
  /\ ~fcmInit[k]
  /\ \A c \in Calls : at[c] \in {"idle", "done"}
  /\ credentials' = LoadedCredentials(outcome)
  /\ clients' = ConstructedClients(outcome)
  /\ pc' = ConstructedPc(outcome)
  /\ IF outcome = "ok"
       THEN /\ coordinators' = RegisterCoordinator(coordinators, k)
            /\ fcmInit' = [fcmInit EXCEPT ![k] = TRUE]
       ELSE UNCHANGED << coordinators, fcmInit >>
  /\ UNCHANGED << cache, coordData, stops >>
  /\ UNCHANGED << callbacks, callVars, pushVars, taskVars, sentLog >>

\* ---- FcmReceiverHA.async_stop and GoogleFindMyCoordinator._async_shutdown

\* await self.pc.stop() returns, or raises
StopOutcomes == {"ok", "raise"}

\* hasattr(self.pc, 'stop') ... and self.pc.stopping_lock is not None: the lock
\* is made by start()
FullyInitialized(cls, p) == cls[p].lock

\* self.pc.stop() is awaited
StopCalled(cls, p) == p # NoClient /\ FullyInitialized(cls, p)

\* the client once its stop() has returned: its receive loop and connection
\* are torn down
StoppedClient(cls, p) == [cls EXCEPT ![p].loops = 0]

\* the clients once async_stop is over: a stop() that raised leaves its client
\* as it was
StopClients(cls, p, outcome) ==
  IF StopCalled(cls, p) /\ outcome = "ok" THEN StoppedClient(cls, p) ELSE cls

\* self.pc once async_stop is over: a client that is not fully initialized is dropped
StopPc(cls, p) ==
  IF p # NoClient /\ ~FullyInitialized(cls, p) THEN NoClient ELSE p

\* mutant: what stop() raises leaves async_stop
StopEscapesOnRaise(outcome) == outcome = "raise"

\* an exception leaves async_stop: never, a TypeError and every other
\* exception of stop() are caught and logged
StopEscapes(outcome) == FALSE

\* _async_shutdown: if self._fcm_initialized: await async_stop(), then the flag
\* is cleared; an exception out of async_stop would leave the flag set
Shutdown(k, outcome) ==
  /\ fcmInit[k]
  /\ stops < MaxStops
  /\ outcome = "raise" => StopCalled(clients, pc)
  /\ stops' = stops + 1
  /\ clients' = StopClients(clients, pc, outcome)
  /\ pc' = StopPc(clients, pc)
  /\ fcmInit' = IF StopEscapes(outcome) THEN fcmInit ELSE [fcmInit EXCEPT ![k] = FALSE]
  /\ UNCHANGED << coordinators, coordData, credentials, cache >>
  /\ UNCHANGED << callbacks, callVars, pushVars, taskVars, sentLog >>

\* ---- the system

\* a step of the process when the calls cs are made and the coordinators ks are set up
Step(cs, ks) ==
  \/ \E c \in cs, d \in Devices, o \in InitOutcomes : Call(c, d, o)
  \/ \E c \in Calls, o \in CheckinOutcomes : Checkin(c, o)
  \/ \E c \in Calls : Sleep(c)
  \/ \E c \in Calls, ok \in BOOLEAN : NovaRequest(c, ok)
  \/ \E c \in Calls : WaitDone(c)
  \/ \E c \in Calls : TimeoutFire(c)
  \/ Tick
  \/ \E d \in Devices \cup {NoId}, l \in Payloads, s \in Shapes :
        OnNotification(Push(Len(arrived) + 1, d, l, s))
  \/ \E t \in handlerTasks, fails \in BOOLEAN : RunCallback(t, fails)
  \/ \E t \in bgTasks : ProcessBackground(t)
  \/ \E ok \in BOOLEAN : SaveCredentials(ok)
  \/ \E k \in ks, o \in InitOutcomes : CoordInitialize(k, o)

\* the configurations explored: one config entry (coordinator) whose devices are
\* located by every call, and every config entry with the first call alone
FirstCoord == {k \in Coords : k = 1}
FirstCall == {c \in Calls : c = 1}

Next == Step(Calls, FirstCoord)

RouterNext == Step(FirstCall, Coords)

Spec == Init /\ [][Next]_vars

RouterSpec == Init /\ [][RouterNext]_vars

\* the config entries are also unloaded (and set up again by a later update cycle)
LifecycleNext ==
  \/ RouterNext
  \/ \E k \in Coords, o \in StopOutcomes : Shutdown(k, o)

LifecycleSpec == Init /\ [][LifecycleNext]_vars

\* ---- location_callback on its own: the first call waits for its device, its
\* request sent, and any pushes, for whatever devices and with or without
\* records, have been handed to its handler
HandlerInit ==
  \E d1 \in Devices, k \in 0..MaxPushes :
    \E ids \in [1..k -> Devices], loads \in [1..k -> Payloads] :
      /\ credentials = PersistedCreds
      /\ cache = PersistedCreds
      /\ pc = 1
      /\ clients = << [creds |-> PersistedCreds, loops |-> 1, lock |-> TRUE] >>
      /\ callbacks = [d \in {d1} |-> 1]
      /\ coordinators = << >>
      /\ fcmInit = [c \in Coords |-> FALSE]
      /\ coordData = [c \in Coords |-> [d \in Devices |-> NoData]]
      /\ stops = 0
      /\ at = [c \in Calls |-> IF c = 1 THEN "wait" ELSE "idle"]
      /\ dev = [c \in Calls |-> IF c = 1 THEN d1 ELSE NoId]
      /\ retries = [c \in Calls |-> 0]
      /\ target = [c \in Calls |-> NoClient]
      /\ event = [c \in Calls |-> FALSE]
      /\ received = [c \in Calls |-> NoData]
      /\ result = [c \in Calls |-> NoData]
      /\ exit = [c \in Calls |-> "none"]
      /\ waited = [c \in Calls |-> 0]
      /\ arrived = [n \in 1..k |-> ids[n]]
      /\ handlerTasks = {[cb |-> 1,
                          push |-> [n |-> n, id |-> ids[n], origin |-> 1,
                                    nrec |-> loads[n], shape |-> "location"]] : n \in 1..k}
      /\ invoked = {}
      /\ bgTasks = {}
      /\ saveTasks = 0
      /\ saveFailed = FALSE
      /\ sentLog = << 1 >>
      /\ outOfOrder = FALSE

HandlerNext ==
  \/ \E t \in handlerTasks, fails \in BOOLEAN : RunCallback(t, fails)
  \/ \E c \in Calls : WaitDone(c)
  \/ \E c \in Calls : TimeoutFire(c)
  \/ Tick

HandlerSpec == HandlerInit /\ [][HandlerNext]_vars

\* ---- what the properties below speak about

\* this step hands a push to _on_notification
Arrival == Len(arrived') = Len(arrived) + 1

\* the identifier and the number of the push this step hands over
ArrivedId == arrived'[Len(arrived')]
ArrivedNo == Len(arrived')

\* the handler tasks this step schedules, and the background tasks
NewHandlerTasks == handlerTasks' \ handlerTasks
NewBgTasks == bgTasks' \ bgTasks

\* the calls whose handler is scheduled, or has run, for push number n
PendingFor(n) == {t \in handlerTasks : t.push.n = n}
InvokedFor(n) == {x \in invoked : x[2] = n}

\* call c has registered its waiter
Registered(c) == at[c] # "idle" /\ exit[c] # "init_fail"

\* the call that registered last for device d, among those calls that registered
LastRegistered(d) ==
  CHOOSE c \in Calls : /\ Registered(c) /\ dev[c] = d
                       /\ \A o \in Calls : Registered(o) /\ dev[o] = d => o <= c

\* ---- C1
\* C1: when a waiter is registered for d and a push for d is handed to
\* _on_notification, exactly one handler task is scheduled, for the handler
\* registered for d, no tracker is involved, and a scheduled handler runs once:
\* no push is ever pending or invoked for two handlers, nor invoked and pending.
C1_DispatchStep ==
  (Arrival /\ ArrivedId \in DOMAIN callbacks) =>
     /\ NewHandlerTasks # {}
     /\ \A t \in NewHandlerTasks :
          /\ handlerTasks' = handlerTasks \cup {t}
          /\ t.cb = callbacks[ArrivedId]
          /\ t.push.id = ArrivedId
          /\ t.push.n = ArrivedNo
     /\ bgTasks' = bgTasks
     /\ invoked' = invoked

C1_RunStep ==
  invoked' # invoked =>
     \E t \in handlerTasks :
        /\ << t.cb, t.push.n >> \notin invoked
        /\ invoked' = invoked \cup {<< t.cb, t.push.n >>}
        /\ handlerTasks' = handlerTasks \ {t}

C1_OncePerPush ==
  \A n \in 1..Len(arrived) : Cardinality(PendingFor(n)) + Cardinality(InvokedFor(n)) <= 1

C1_ExactlyOneHandlerOnce ==
  /\ [][C1_DispatchStep /\ C1_RunStep]_vars
  /\ []C1_OncePerPush

\* one push has arrived, for the device of a waiting call, and that call's handler has run on it
C1_Witness ==
  \E c \in Calls :
     /\ Len(arrived) = 1
     /\ arrived[1] = dev[c]
     /\ invoked = {<< c, 1 >>}
     /\ handlerTasks = {}

\* ---- C2
\* C2: matching a push to the waiter of d removes the waiter, so no handler is
\* ever scheduled for two pushes (each registration is notified at most once).
C2_RemovedOnDispatch ==
  \A c \in Calls :
     Cardinality({t.push.n : t \in {u \in handlerTasks : u.cb = c}}
                 \cup {x[2] : x \in {y \in invoked : y[1] = c}}) <= 1

\* ---- C3
\* C3: an entry of the registry belongs to the call that registered last for its
\* device, and a push handed over for d schedules that call's handler only.
C3_LastWins ==
  \A d \in DOMAIN callbacks : callbacks[d] = LastRegistered(d)

C3_PushGoesToLast ==
  Arrival => \A t \in NewHandlerTasks : t.cb = LastRegistered(t.push.id)

C3_SecondReplacesFirst ==
  /\ []C3_LastWins
  /\ [][C3_PushGoesToLast]_vars

\* two calls wait for the same device; the one push that arrived ran the second's handler
C3_Witness ==
  \E c1, c2 \in Calls :
     /\ c1 < c2
     /\ dev[c1] = dev[c2]
     /\ at[c1] = "wait" /\ ~event[c1]
     /\ Len(arrived) = 1 /\ arrived[1] = dev[c2]
     /\ invoked = {<< c2, 1 >>}

\* ---- C4
\* C4: a push is handed to a handler only if a waiter is registered for its
\* identifier, and to a tracker only if that tracker is registered and tracks
\* it; so a push with neither schedules nothing. No push changes the registry
\* or the tracker list.
C4_DropStep ==
  Arrival =>
     /\ \A t \in NewHandlerTasks : t.push.id = ArrivedId /\ ArrivedId \in DOMAIN callbacks
     /\ \A t \in NewBgTasks :
          /\ t.push.id = ArrivedId
          /\ t.coord \in Range(coordinators)
          /\ ArrivedId \in tracked[t.coord]
     /\ (\/ ArrivedId \in DOMAIN callbacks
         \/ \E k \in Range(coordinators) : ArrivedId \in tracked[k]
         \/ (handlerTasks' = handlerTasks /\ bgTasks' = bgTasks))
     /\ callbacks' = callbacks
     /\ coordinators' = coordinators
     /\ invoked' = invoked
     /\ coordData' = coordData

C4_UnmatchedPushDropped == [][C4_DropStep]_vars

\* a push arrived for the untracked device while only the other device had a
\* waiter and a tracker was registered: nothing was scheduled, the waiter is still there
C4_Witness ==
  /\ Len(arrived) = 1
  /\ arrived[1] = 2
  /\ DOMAIN callbacks = {1}
  /\ coordinators # << >>
  /\ handlerTasks = {} /\ invoked = {} /\ bgTasks = {}

\* the clock and the timers of the event loop: time passes, and the timer of
\* wait_for fires once it is due (explored with the first call alone)
FairSpec ==
  /\ Init /\ [][RouterNext]_vars
  /\ WF_vars(Tick)
  /\ \A c \in Calls : WF_vars(TimeoutFire(c))

\* call c returns in this step, by the exit named how
Exits(c, how) == exit[c] # how /\ exit'[c] = how

\* a push for the device of call c has arrived
PushArrivedFor(c) == \E n \in 1..Len(arrived) : arrived[n] = dev[c]

\* ---- C5
\* C5: a call that waits returns; without a push for its device it returns the
\* empty result, and not by the success exit; the timeout exit is taken when
\* Timeout units have passed (and before one more tick passes), returns the
\* empty result and leaves no waiter for the device, every other entry as it
\* was: with no other call made, the registry is empty as before the call.
C5_TimeoutStep ==
  \A c \in Calls :
     Exits(c, "timeout") =>
        /\ at[c] = "wait"
        /\ waited[c] >= Timeout
        /\ waited[c] < Timeout + TickStep
        /\ result'[c] = NoData
        /\ dev[c] \notin DOMAIN callbacks'
        /\ DOMAIN callbacks' = (DOMAIN callbacks) \ {dev[c]}
        /\ \A d \in DOMAIN callbacks' : callbacks'[d] = callbacks[d]
        /\ (\A o \in Calls \ {c} : at[o] = "idle") => callbacks' = << >>

C5_NoPushNoData ==
  \A c \in Calls :
     (at[c] = "done" /\ ~PushArrivedFor(c)) => (exit[c] # "ok" /\ result[c] = NoData)

C5_TimeoutReturnsEmpty ==
  /\ [][C5_TimeoutStep]_vars
  /\ []C5_NoPushNoData
  /\ \A c \in Calls : (at[c] = "wait") ~> (at[c] = "done")

\* the only call made has timed out, no push having arrived for its device:
\* it holds the empty result and the registry is empty again
C5_Witness ==
  \E c \in Calls :
     /\ exit[c] = "timeout"
     /\ \A o \in Calls \ {c} : at[o] = "idle"
     /\ ~PushArrivedFor(c)
     /\ result[c] = NoData
     /\ callbacks = << >>
     /\ sentLog = << c >>

\* ---- C6
\* C6: no call has returned with its own waiter still in the registry.
C6_NoLeakOnAnyExit ==
  \A c \in Calls :
     at[c] = "done" => ~(dev[c] \in DOMAIN callbacks /\ callbacks[dev[c]] = c)

\* ---- C7
\* C7: a push that answers a request which has timed out is never handed to
\* the handler of another call.
C7_LateStep ==
  Arrival =>
     \A t \in NewHandlerTasks :
        (t.push.origin \in Calls /\ exit[t.push.origin] = "timeout") => t.cb = t.push.origin

C7_LatePushNotToNewWaiter == [][C7_LateStep]_vars

\* ---- C8
\* C8: a handler is scheduled only for a push that carries its call's device,
\* and whatever a call holds or returns is a record of a push that arrived
\* with its own device identifier, in whatever order the pushes arrive.
C8_OwnRecord(r, c) ==
  r # NoData => /\ r[1].dev = dev[c]
                /\ r[1].push \in 1..Len(arrived)
                /\ arrived[r[1].push] = dev[c]

C8_EachGetsItsOwn ==
  /\ \A t \in handlerTasks : t.push.id = dev[t.cb]
  /\ \A c \in Calls : C8_OwnRecord(received[c], c) /\ C8_OwnRecord(result[c], c)

\* two calls for distinct devices have both returned a record, the answer to the
\* later request having arrived while the earlier request still waited
C8_Witness ==
  \E c1, c2 \in Calls :
     /\ dev[c1] # dev[c2]
     /\ exit[c1] = "ok" /\ result[c1] # NoData
     /\ exit[c2] = "ok" /\ result[c2] # NoData
     /\ outOfOrder

\* ---- C9
\* C9 as stated: a call does not take the timeout exit when a push with a
\* record has been matched to its handler.
C9_ReturnsWhenPushArrived ==
  [][\A c \in Calls :
       Exits(c, "timeout") =>
          /\ received[c] = NoData
          /\ \A t \in handlerTasks : t.cb = c => t.push.nrec = 0]_vars

\* C9 amended: once the handler of a call has stored a record, the completion
\* signal is set, the record is the first of a push for the call's device, the
\* waiting call can return at once, whatever time has passed, and the success
\* exit returns that record.
C9_StoredIsFirst ==
  \A c \in Calls :
     received[c] # NoData =>
        /\ event[c]
        /\ received[c][1].idx = 1
        /\ received[c][1].dev = dev[c]
        /\ at[c] = "wait" => ENABLED WaitDone(c)

C9_OkStep ==
  \A c \in Calls :
     Exits(c, "ok") => (event[c] /\ result'[c] = received[c])

C9_ReturnsFirstRecordOnSignal ==
  /\ []C9_StoredIsFirst
  /\ [][C9_OkStep]_vars

\* a call has returned the first of the MaxRecs records of the one push that arrived
C9_Witness ==
  \E c \in Calls :
     /\ exit[c] = "ok"
     /\ Len(arrived) = 1
     /\ result[c] = << [dev |-> dev[c], push |-> 1, idx |-> 1] >>
     /\ MaxRecs > 1

\* ---- C10
\* C10: at most one push client is ever constructed.
C10_AtMostOneClient == Len(clients) <= 1

\* ---- C11
\* the receive loops started so far, over every client
RECURSIVE LoopsStarted(_)
LoopsStarted(cls) ==
  IF cls = << >> THEN 0 ELSE Head(cls).loops + LoopsStarted(Tail(cls))

\* C11: whatever register calls are made, and however they interleave with a
\* check-in in progress, at most one receive loop is ever started.
C11_AtMostOneLoop == LoopsStarted(clients) <= 1

\* ---- C12
\* call c leaves the _register_for_fcm loop in this step, every attempt having failed
GivesUp(c) == at[c] = "sleep" /\ at'[c] # "sleep" /\ at'[c] # "checkin"

\* C12: when every check-in attempt has failed, no receive loop is started.
C12_NoLoopAfterFailure ==
  [][\A c \in Calls :
       GivesUp(c) => \A i \in DOMAIN clients : clients'[i].loops = clients[i].loops]_vars

\* ---- C13
\* how far call c is in the _register_for_fcm loop: grows with every step of the loop
LoopMeasure(c) == 2 * retries[c] + (IF at[c] = "checkin" THEN 1 ELSE 0)

\* C13: an attempt is made only after fewer than MaxRetries failures, so at most
\* MaxRetries attempts; the delay is entered only from a failed attempt, which
\* counts one retry and yields no credentials; an attempt with a token leaves
\* the loop without a delay; and every step of the loop increases a measure
\* bounded by 2 * MaxRetries, so the loop ends after at most that many steps.
C13_Bounds ==
  \A c \in Calls :
     /\ retries[c] \in 0..MaxRetries
     /\ at[c] = "checkin" => retries[c] < MaxRetries
     /\ at[c] = "sleep" => retries[c] >= 1
     /\ at[c] \notin {"checkin", "sleep"} => retries[c] = 0

C13_LoopStep ==
  \A c \in Calls :
     /\ (at'[c] = "sleep" /\ at[c] # "sleep") =>
           /\ at[c] = "checkin"
           /\ retries'[c] = retries[c] + 1
           /\ credentials' = credentials
           /\ clients' = clients
     /\ (at[c] = "checkin" /\ at'[c] # "checkin") =>
           \/ at'[c] = "sleep"
           \/ (at'[c] \in {"send", "done"} /\ clients'[target[c]].creds # NoCreds)
     /\ (at'[c] = "checkin" /\ at[c] # "checkin") => at[c] \in {"idle", "sleep"}
     /\ (at[c] \in {"checkin", "sleep"} /\ at'[c] \in {"checkin", "sleep"} /\ at'[c] # at[c]) =>
           (LoopMeasure(c)' > LoopMeasure(c) /\ LoopMeasure(c)' <= 2 * MaxRetries)
     /\ (at[c] \in {"checkin", "sleep"} /\ at'[c] = at[c]) => retries'[c] = retries[c]

C13_BoundedRetries ==
  /\ []C13_Bounds
  /\ [][C13_LoopStep]_vars

\* a call is in the delay after its last permitted attempt has failed
C13_Witness ==
  \E c \in Calls : at[c] = "sleep" /\ retries[c] = MaxRetries

\* ---- C14
\* the registration of call c is over in this step
Registers(c) == at[c] = "idle" /\ at'[c] # "idle" /\ exit'[c] # "init_fail"
RegisterReturns(c) ==
  at[c] \in {"idle", "checkin", "sleep"} /\ at'[c] \in {"send", "done"} /\ exit'[c] # "init_fail"

\* C14: the register call puts the caller's handler into the registry under its
\* device, starts the check-in exactly when self.pc is not started, and ends
\* either with the token, exactly when the credentials hold one, or with none.
C14_RegisterStep ==
  \A c \in Calls :
     /\ Registers(c) =>
           /\ dev'[c] \in DOMAIN callbacks'
           /\ callbacks'[dev'[c]] = c
           /\ \A d \in DOMAIN callbacks : d # dev'[c] =>
                 (d \in DOMAIN callbacks' /\ callbacks'[d] = callbacks[d])
           /\ (at'[c] = "checkin") <=> (pc' = NoClient \/ clients'[pc'].loops = 0)
     /\ RegisterReturns(c) =>
           /\ (at'[c] = "send") <=> (credentials' # NoCreds)
           /\ (at'[c] = "done") <=> (exit'[c] = "no_token" /\ result'[c] = NoData)

C15_Step ==
  \A c \in Calls :
     /\ Exits(c, "no_token") =>
           /\ at[c] \in {"idle", "checkin", "sleep"}
           /\ credentials' = NoCreds
           /\ sentLog' = sentLog
     /\ (at'[c] = "send" /\ at[c] # "send") => credentials' # NoCreds

C15_NothingSent ==
  \A c \in Calls : exit[c] \in {"no_token", "init_fail"} => c \notin Range(sentLog)

C15_NoTokenNoRequest ==
  /\ [][C15_Step]_vars
  /\ []C15_NothingSent

\* a call has left for want of a token and no request has reached the cloud
C15_Witness ==
  \E c \in Calls : exit[c] = "no_token" /\ sentLog = << >> /\ credentials = NoCreds

\* ---- C16
\* C16: a call ends by one of its return statements, and by every one but the
\* success exit with the empty value; the success exit returns what the
\* handler stored, which is empty when the handler failed or found no record.
C16_Returned ==
  \A c \in Calls :
     /\ at[c] = "done" <=> exit[c] \in {"init_fail", "no_token", "send_fail", "timeout", "ok"}
     /\ at[c] # "done" => exit[c] = "none"
     /\ exit[c] # "ok" => result[c] = NoData

C16_OkStep ==
  \A c \in Calls :
     Exits(c, "ok") =>
        /\ result'[c] = received[c]
        /\ (\A x \in invoked : x[1] # c) => result'[c] = NoData

C16_NeverRaises ==
  /\ []C16_Returned
  /\ [][C16_OkStep]_vars

\* one call has failed to send and another has timed out: both hold the empty value
C16_Witness ==
  \E c1, c2 \in Calls :
     /\ exit[c1] = "send_fail" /\ result[c1] = NoData
     /\ exit[c2] = "timeout" /\ result[c2] = NoData

\* ---- C17
\* C17: a message from which no identifier comes out schedules nothing and
\* changes neither the registry nor the tracker list; no message ends a receive
\* loop, nor touches the registry entry of a device other than its own.
C17_MalformedStep ==
  Arrival =>
     /\ clients' = clients
     /\ \A d \in DOMAIN callbacks :
          d # ArrivedId => (d \in DOMAIN callbacks' /\ callbacks'[d] = callbacks[d])
     /\ ArrivedId = NoId =>
          /\ callbacks' = callbacks
          /\ coordinators' = coordinators
          /\ handlerTasks' = handlerTasks
          /\ bgTasks' = bgTasks
          /\ invoked' = invoked

C17_NotificationContained == [][C17_MalformedStep]_vars

\* after a message without an identifier, the next push has reached the
\* handler of the call that waited all along
C17_Witness ==
  \E c \in Calls :
     /\ Len(arrived) = 2
     /\ arrived[1] = NoId
     /\ arrived[2] = dev[c]
     /\ invoked = {<< c, 2 >>}
     /\ Range(sentLog) = {c}

\* ---- C18
\* the positions, in registration order, of the trackers that track device d
TrackersOf(d) == {i \in 1..Len(coordinators) : d \in tracked[coordinators[i]]}

\* C18: a push with an identifier and no waiter is handed to exactly one
\* tracker, the one registered first among those tracking the identifier, and
\* to none when none tracks it; no handler is scheduled for it.
C18_RouteStep ==
  (Arrival /\ ArrivedId # NoId /\ ArrivedId \notin DOMAIN callbacks) =>
     /\ handlerTasks' = handlerTasks
     /\ bgTasks \subseteq bgTasks'
     /\ IF TrackersOf(ArrivedId) = {}
          THEN bgTasks' = bgTasks
          ELSE \E t \in bgTasks' :
                  /\ NewBgTasks = {t}
                  /\ t.push.id = ArrivedId
                  /\ t.push.n = ArrivedNo
                  /\ \E i \in TrackersOf(ArrivedId) :
                       /\ t.coord = coordinators[i]
                       /\ \A j \in TrackersOf(ArrivedId) : i <= j

C18_FirstMatch == [][C18_RouteStep]_vars

\* two trackers that both track the device are registered, the one push for
\* it went to the one registered first, and that was not the first coordinator
C18_Witness ==
  /\ Len(coordinators) = 2
  /\ coordinators[1] # 1
  /\ callbacks = << >>
  /\ Len(arrived) = 1
  /\ TrackersOf(arrived[1]) = {1, 2}
  /\ \E t \in bgTasks : bgTasks = {t} /\ t.coord = coordinators[1]

\* ---- C19
\* C19: a push for a device with a waiter schedules that waiter's handler and
\* no background update, whatever trackers track the device; a background
\* update is scheduled only for a push whose device had no waiter.
C19_PrecedenceStep ==
  Arrival =>
     /\ ArrivedId \in DOMAIN callbacks =>
          /\ bgTasks' = bgTasks
          /\ coordData' = coordData
          /\ \E t \in NewHandlerTasks : t.cb = callbacks[ArrivedId]
     /\ NewBgTasks # {} => ArrivedId \notin DOMAIN callbacks

C19_NoBackgroundForWaiter ==
  \A t \in bgTasks : \A u \in handlerTasks : t.push.n # u.push.n

C19_WaiterFirst ==
  /\ [][C19_PrecedenceStep]_vars
  /\ []C19_NoBackgroundForWaiter

\* a push arrived for a device that a registered tracker tracks and a call
\* waits for: the call's handler is scheduled, no background update is
C19_Witness ==
  \E c \in Calls :
     /\ at[c] = "wait"
     /\ arrived = << dev[c] >>
     /\ TrackersOf(dev[c]) # {}
     /\ \E t \in handlerTasks : handlerTasks = {t} /\ t.cb = c
     /\ bgTasks = {}
     /\ \A k \in Coords, d \in Devices : coordData[k][d] = NoData

\* ---- C20
\* the handler task this step runs
Ran(t) == t \in handlerTasks /\ t \notin handlerTasks' /\ invoked' # invoked

\* C20: a handler run on a push for another device stores nothing and leaves
\* the completion signal as it was, so its call stays where it is; the signal
\* is set only once the handler has run on a push for the call's own device,
\* and a record held or returned comes from such a push.
C20_MismatchStep ==
  \A t \in handlerTasks :
     (Ran(t) /\ t.push.id # dev[t.cb]) =>
        /\ received'[t.cb] = received[t.cb]
        /\ event'[t.cb] = event[t.cb]
        /\ at' = at
        /\ result' = result

C20_OwnPushOnly ==
  \A c \in Calls :
     /\ event[c] => \E x \in invoked : x[1] = c /\ arrived[x[2]] = dev[c]
     /\ exit[c] = "ok" => \E x \in invoked : x[1] = c /\ arrived[x[2]] = dev[c]
     /\ received[c] # NoData =>
           (received[c][1].dev = dev[c] /\ arrived[received[c][1].push] = dev[c])
     /\ result[c] # NoData =>
           (result[c][1].dev = dev[c] /\ arrived[result[c][1].push] = dev[c])

C20_MismatchIgnored ==
  /\ [][C20_MismatchStep]_vars
  /\ []C20_OwnPushOnly

\* the handler has run on a push with records for another device: its call
\* still waits, nothing stored, the signal not set
C20_Witness ==
  \E c \in Calls, t \in handlerTasks :
     /\ at[c] = "wait"
     /\ ~event[c]
     /\ received[c] = NoData
     /\ \E x \in invoked : x[1] = c /\ arrived[x[2]] # dev[c]
     /\ t.cb = c /\ t.push.id = dev[c] /\ t.push.nrec > 0

\* ---- C21
\* call c runs the finally of its wait_for in this step
Unregisters(c) ==
  /\ at'[c] = "done"
  /\ at[c] = "wait" \/ (at[c] = "send" /\ sentLog' # sentLog)

\* C21: the unregister of a call's cleanup never fails (the call leaves by the
\* return it was making), removes the entry of the call's device if there is
\* one, changes nothing when there is none, leaves the entry of every other
\* device as it was, and unregistering the same device once more would change
\* nothing.
C21_UnregisterStep ==
  \A c \in Calls :
     Unregisters(c) =>
        /\ exit'[c] \in {"ok", "timeout"}
        /\ DOMAIN callbacks' = (DOMAIN callbacks) \ {dev[c]}
        /\ \A d \in DOMAIN callbacks' : callbacks'[d] = callbacks[d]
        /\ dev[c] \notin DOMAIN callbacks => callbacks' = callbacks
        /\ RegistryRemove(callbacks', dev[c]) = callbacks'

C21_UnregisterFrame == [][C21_UnregisterStep]_vars

\* two calls for one device were in flight together (a push arrived for the
\* later request while the earlier call waited) and both have run their
\* cleanup: the first to finish removed the entry, the other found none
C21_Witness ==
  \E c1, c2 \in Calls :
     /\ c1 # c2
     /\ dev[c1] = dev[c2]
     /\ outOfOrder
     /\ exit[c1] \in {"ok", "timeout"}
     /\ exit[c2] \in {"ok", "timeout"}
     /\ callbacks = << >>

\* ---- C22
\* async_stop is called in this step
StopStep == stops' = stops + 1

\* C22: async_stop never fails, so the shutdown that called it completes:
\* with no client it changes nothing, a client that was never started is
\* dropped without its stop() being awaited, and a stop made right after a
\* stop whose client was torn down would change nothing. No stop touches the
\* registry, the credentials or the tracker list.
C22_StopStep ==
  StopStep =>
     /\ \E k \in Coords : fcmInit[k] /\ ~fcmInit'[k]
     /\ pc = NoClient => (pc' = NoClient /\ clients' = clients)
     /\ (pc # NoClient /\ ~clients[pc].lock) => (pc' = NoClient /\ clients' = clients)
     /\ (pc # NoClient /\ clients[pc].lock) => pc' = pc
     /\ (pc' # NoClient => clients'[pc'].loops = 0) =>
           /\ StopPc(clients', pc') = pc'
           /\ StopClients(clients', pc', "ok") = clients'
     /\ callbacks' = callbacks
     /\ credentials' = credentials
     /\ coordinators' = coordinators

C22_StopIdempotent == [][C22_StopStep]_vars

\* both config entries were unloaded, two stops made, while no client had
\* ever been started: each stop found no client or one not fully initialized,
\* and none is left
C22_Witness ==
  /\ stops = 2
  /\ pc = NoClient
  /\ Len(clients) = 2
  /\ \A i \in DOMAIN clients : ~clients[i].lock
  /\ \A k \in Coords : ~fcmInit[k]

\* ---- C23
\* a client has registered and reported new credentials
Refreshed == \E i \in DOMAIN clients : clients[i].creds = i

\* _on_credentials_updated runs in this step; a persist task runs in this step
RefreshStep == saveTasks' = saveTasks + 1
PersistStep == saveTasks' = saveTasks - 1

\* C23: when a client reports new credentials, and only then, the in-memory
\* copy becomes those credentials in the same step and one more persist is
\* scheduled. A persist changes neither the in-memory copy nor any client,
\* receive loop, waiter or task, and either writes the in-memory copy to the
\* store or fails and leaves the store as it was. Once credentials were
\* reported and every scheduled persist has run, the last of them without
\* failing, the store holds the in-memory copy.
C23_RefreshStep ==
  /\ RefreshStep =>
        \E i \in DOMAIN clients :
           /\ clients[i].creds = NoCreds
           /\ clients'[i].creds # NoCreds
           /\ credentials' = clients'[i].creds
  /\ (\E i \in DOMAIN clients : clients'[i].creds # clients[i].creds) => RefreshStep

C23_PersistStep ==
  PersistStep =>
     /\ credentials' = credentials
     /\ clients' = clients
     /\ pc' = pc
     /\ callbacks' = callbacks
     /\ handlerTasks' = handlerTasks /\ bgTasks' = bgTasks
     /\ at' = at
     /\ \/ cache' = credentials /\ ~saveFailed'
        \/ cache' = cache /\ saveFailed'

C23_AllPersisted ==
  (Refreshed /\ saveTasks = 0 /\ ~saveFailed) => cache = credentials

C23_CredentialsPersisted ==
  /\ [][C23_RefreshStep]_vars
  /\ [][C23_PersistStep]_vars
  /\ []C23_AllPersisted

\* two clients have registered and reported new credentials, every persist
\* has run, the last without failing: the store holds the in-memory copy,
\* the credentials reported last
C23_Witness ==
  /\ Len(clients) = 2
  /\ clients[1].creds = 1
  /\ clients[2].creds = 2
  /\ saveTasks = 0
  /\ ~saveFailed
  /\ credentials = 2
  /\ cache = 2

\* ---- C24
\* the request of call c reaches the cloud in this step
SendStep(c) == sentLog' = Append(sentLog, c)

\* another call for the device of call c has registered after c (and replaced
\* its waiter), or has run its cleanup (and removed the waiter)
Displaced(c) ==
  \E o \in Calls \ {c} :
     /\ dev[o] = dev[c]
     /\ Registered(o)
     /\ o > c \/ exit[o] \in {"ok", "timeout"}

\* C24: a request is sent only by a call that has registered, and from its
\* registration until it returns the registry holds a waiter for its device,
\* its own unless another call for the same device replaced or removed it.
\* So a push for the device that arrives while the call waits for the answer
\* to its request finds a waiter and schedules a handler, unless another call
\* removed the waiter.
C24_InFlight ==
  \A c \in Calls :
     at[c] \in {"checkin", "sleep", "send", "wait"} =>
        \/ dev[c] \in DOMAIN callbacks /\ callbacks[dev[c]] = c
        \/ Displaced(c)

C24_SendStep ==
  \A c \in Calls :
     SendStep(c) =>
        /\ at[c] = "send"
        /\ \/ dev[c] \in DOMAIN callbacks /\ callbacks[dev[c]] = c
           \/ Displaced(c)

C24_AnswerStep ==
  \A c \in Calls :
     (Arrival /\ at[c] = "wait" /\ ArrivedId = dev[c]) =>
        \/ \E t \in NewHandlerTasks : t.push.id = dev[c]
        \/ \E o \in Calls \ {c} : dev[o] = dev[c] /\ exit[o] \in {"ok", "timeout"}

C24_RegisteredBeforeSend ==
  /\ []C24_InFlight
  /\ [][C24_SendStep]_vars
  /\ [][C24_AnswerStep]_vars

\* the only request sent is that of a call that still waits; the push
\* answering it has arrived and found the call's waiter
C24_Witness ==
  \E c \in Calls :
     /\ sentLog = << c >>
     /\ at[c] = "wait"
     /\ arrived = << dev[c] >>
     /\ callbacks[dev[c]] = c
     /\ \E t \in handlerTasks : t.cb = c /\ t.push.origin = c

\* ---- C25
\* C25: the cleanup of a call removes no waiter but its own: an entry that
\* holds the handler of another call is still there, unchanged, after it.
C25_OwnWaiterOnly ==
  [][\A c \in Calls :
       Unregisters(c) =>
          \A d \in DOMAIN callbacks :
             callbacks[d] # c => (d \in DOMAIN callbacks' /\ callbacks'[d] = callbacks[d])]_vars

\* ---- C26
\* C26: no handler runs once its call has unregistered its waiter and returned.
C26_NoRunAfterUnregister ==
  [][\A t \in handlerTasks :
       Ran(t) => ~(at[t.cb] = "done" /\ exit[t.cb] \in {"ok", "timeout"})]_vars

\* ---- C27
\* a coordinator is in the tracker list at most once
C27_ListedOnce ==
  \A i, j \in 1..Len(coordinators) : coordinators[i] = coordinators[j] => i = j

\* a coordinator enters the list only in the step that sets its flag
C27_RegisterStep ==
  \A k \in Coords :
     (k \in Range(coordinators') /\ k \notin Range(coordinators)) =>
        (~fcmInit[k] /\ fcmInit'[k])

\* a coordinator in the list has its FCM set up and not shut down
C27_ListedWhileSetUp == \A k \in Range(coordinators) : fcmInit[k]

\* a background update is scheduled only for a coordinator that is set up
C27_UpdateStep == \A t \in NewBgTasks : fcmInit[t.coord]

\* C27: a coordinator is in the tracker list only from its successful FCM
\* initialization to its shutdown, at most once, and gets no background
\* update once it is shut down.
C27_TrackerLifecycle ==
  /\ []C27_ListedOnce
  /\ [][C27_RegisterStep]_vars
  /\ []C27_ListedWhileSetUp
  /\ [][C27_UpdateStep]_vars

====
